---- MODULE Spec2Model ----
(***************************************************************************)
(* nftmintalert: the scheduled handler processLogs of the mint-alert       *)
(* Lambda, its helpers (GetStatus, SetStatus, callOut, sendTweetV2,        *)
(* sendDiscordWebhook, rankByWordCount) and opensea.Client.AssetContract.  *)
(*                                                                         *)
(* One invocation is a walk of pc through the handler; the outcomes of the *)
(* external calls (S3, the Ethereum node, OpenSea, Twitter, Discord) are   *)
(* the inputs, drawn with \E.  The S3 blob is the only state that survives *)
(* an invocation.                                                          *)
(***************************************************************************)
EXTENDS Integers, Sequences, FiniteSets, TLC

(***************************************************************************)
(* Program constants.                                                      *)
(***************************************************************************)
contractAddressOpenSea == "0x7Be8076f4EA4A4AD08075C2508e481d6C946D12b"
contractENS == "0x283Af0B28c62C092C9727F1Ee09c02CA627EB7F5"
contractENS2 == "0x57f1887a8BF19b14fC0dF6Fd9B2acc9Af147eA85"
nullAddress == "0x0000000000000000000000000000000000000000"
topicTransfer == "0xddf252ad1be2c89b69c2b068fc378daa952ba7f163c4a11628f55a4df523b3ef"

\* `if mint.Value > 100`
mintThreshold == 100
\* `if len(status.Recents) > 200`
recentsCap == 200
\* `status.Recents = status.Recents[2:]`
trimCount == 2

(***************************************************************************)
(* Bounds of the model.                                                    *)
(***************************************************************************)
\* invocations of the handler in one behaviour
MaxRuns == 2
\* the longest FilterLogs result where the stages are taken one by one
MaxLogs == 3

\* the contracts that mint in the scanned block window
Contracts == {"0xA", "0xB", "0xC"}
ContractSeq == <<"0xA", "0xB", "0xC">>

\* addresses announced long ago, filling the persisted list
Filler(n) == [i \in 1..n |-> "0xF" \o ToString(i)]

(***************************************************************************)
(* Environment: os.Getenv of each variable; "" is an unset variable.       *)
(***************************************************************************)
FullEnv ==
    [ ETH_NETWORK_URL         |-> "https://node",
      S3_BUCKET               |-> "bucket",
      S3_FILE_KEY             |-> "status.json",
      OPENSEA_API_KEY         |-> "oskey",
      DISCORD_WEBHOOK_ID      |-> "123",
      DISCORD_WEBHOOK_TOKEN   |-> "whtoken",
      TWITTER_CONSUMER_KEY    |-> "ck",
      TWITTER_CONSUMER_SECRET |-> "cs",
      TWITTER_TOKEN           |-> "tk",
      TWITTER_TOKEN_SECRET    |-> "ts" ]

\* one variable unset
Unset(e, v) == [e EXCEPT ![v] = ""]

\* the deployments: everything set; one required variable unset; one channel
\* without a credential, or with a webhook id that is no number; no channel
RequiredVars == {"ETH_NETWORK_URL", "S3_BUCKET", "S3_FILE_KEY", "OPENSEA_API_KEY"}

Envs ==
    {FullEnv}
    \cup {Unset(FullEnv, v) : v \in RequiredVars}
    \cup {Unset(FullEnv, "DISCORD_WEBHOOK_TOKEN"), Unset(FullEnv, "TWITTER_TOKEN")}
    \cup {[FullEnv EXCEPT !.DISCORD_WEBHOOK_ID = "not-a-number"]}
    \cup {Unset(Unset(FullEnv, "DISCORD_WEBHOOK_ID"), "TWITTER_CONSUMER_KEY")}

\* strconv.ParseInt(webhookId, 10, 64) succeeds on decimal strings only
ParseIntOk(s) == s \in {"123"}

(***************************************************************************)
(* The S3 object: absent, bytes that are no JSON document, or the JSON     *)
(* document {"recents": [...]}.                                            *)
(***************************************************************************)
AbsentBlob == [kind |-> "absent", recents |-> <<>>]
GarbageBlob == [kind |-> "garbage", recents |-> <<>>]
JsonBlob(r) == [kind |-> "json", recents |-> r]

\* json.Marshal(status) of Status{Recents []string}
Marshal(st) == JsonBlob(st)

\* json.Unmarshal(body, &status): the zero Status is left as it is on an error
Unmarshal(blob) == IF blob.kind = "json" THEN blob.recents ELSE <<>>

InitialStores ==
    {AbsentBlob, GarbageBlob, JsonBlob(<<"">>), JsonBlob(Filler(recentsCap))}

(***************************************************************************)
(* Logs.  A topic is a 32-byte word; topic 0 is kept as the hex string of  *)
(* the event signature, an indexed address as its 12 padding bytes and its *)
(* 20 address bytes.                                                       *)
(***************************************************************************)
Word(pad, addr) == [pad |-> pad, addr |-> addr]

\* common.BytesToAddress(b).Hex(): crops a longer input from the left
BytesToAddress(w) == w.addr

MintLog(c, tx) ==
    [ Address |-> c,
      Topics  |-> <<topicTransfer, Word(0, nullAddress), Word(0, "0xbuyer"), Word(0, "0x01")>>,
      TxHash  |-> tx ]

\* entries that are not counted: a transfer between holders, an ERC20 transfer
\* (3 topics), an ENS registration, and a second log of the ENS transaction
NoiseLogs ==
    << [ Address |-> "0xA",
         Topics  |-> <<topicTransfer, Word(0, "0xseller"), Word(0, "0xbuyer"), Word(0, "0x02")>>,
         TxHash  |-> 1 ],
       [ Address |-> "0xB",
         Topics  |-> <<topicTransfer, Word(0, nullAddress), Word(0, "0xbuyer")>>,
         TxHash  |-> 2 ],
       [ Address |-> contractENS,
         Topics  |-> <<topicTransfer, Word(0, nullAddress), Word(0, "0xbuyer"), Word(0, "0x03")>>,
         TxHash  |-> 3 ],
       MintLog("0xC", 3) >>

\* w[c] mint transactions of every contract c, one log each, after the noise
RECURSIVE MintLogs(_, _)
MintLogs(w, i) ==
    IF i > Len(ContractSeq) THEN <<>>
    ELSE [k \in 1..w[ContractSeq[i]] |-> MintLog(ContractSeq[i], 1000 * i + k)]
         \o MintLogs(w, i + 1)

BuildLogs(w) == NoiseLogs \o MintLogs(w, 1)

MintCounts == {0, mintThreshold, mintThreshold + 1, mintThreshold + 2}
\* the contracts are interchangeable: the workloads are taken up to renaming,
\* and at most one contract is ahead of the others above the threshold
Workloads ==
    { w \in [Contracts -> MintCounts] :
        /\ \A i, j \in 1..Len(ContractSeq) : i < j => w[ContractSeq[i]] >= w[ContractSeq[j]]
        /\ w[ContractSeq[2]] <= mintThreshold + 1 }

(***************************************************************************)
(* processLogs, lines 600-607: one entry per transaction hash, the first.  *)
(***************************************************************************)
\* a pass that appends every entry
UniqueStepKeepAll(acc, vLog) ==
    [transHashList |-> acc.transHashList \cup {vLog.TxHash},
     transList     |-> Append(acc.transList, vLog)]

\* one pass of the loop body: transHashList and transList after vLog
UniqueStep(acc, vLog) ==
    IF vLog.TxHash \in acc.transHashList THEN acc
    ELSE [transHashList |-> acc.transHashList \cup {vLog.TxHash},
          transList     |-> Append(acc.transList, vLog)]

\* the loop over logs[lo..hi], in order.  The range is split in halves and
\* the first half is evaluated (left = left) before the second is entered,
\* which keeps the evaluation shallow; the passes are the same, in the same
\* order
RECURSIVE UniqueRange(_, _, _, _)
UniqueRange(logs, acc, lo, hi) ==
    IF lo > hi THEN acc
    ELSE IF lo = hi THEN UniqueStep(acc, logs[lo])
    ELSE LET mid == (lo + hi) \div 2
             left == UniqueRange(logs, acc, lo, mid)
         IN  IF left = left THEN UniqueRange(logs, left, mid + 1, hi) ELSE acc

UniqueTransactions(logs) ==
    UniqueRange(logs, [transHashList |-> {}, transList |-> <<>>], 1, Len(logs)).transList

\* the checks of lines 628-653 without the one of line 636
IsCountedMintAnyContract(txLog) ==
    /\ txLog.Topics[1] = topicTransfer
    /\ Len(txLog.Topics) >= 4
    /\ BytesToAddress(txLog.Topics[2]) = nullAddress

\* lines 628-653: is this entry counted as a mint of its address
IsCountedMint(txLog) ==
    /\ txLog.Topics[1] = topicTransfer
    /\ Len(txLog.Topics) >= 4
    /\ txLog.Address \notin {contractAddressOpenSea, contractENS, contractENS2}
    /\ BytesToAddress(txLog.Topics[2]) = nullAddress

\* addressList[address]++ on a Go map: a missing key reads as 0
Increment(addressList, address) ==
    [k \in DOMAIN addressList \cup {address} |->
        IF k = address
        THEN (IF address \in DOMAIN addressList THEN addressList[address] ELSE 0) + 1
        ELSE addressList[k]]

\* one pass of the loop body of lines 611-655
CountStep(addressList, txLog) ==
    IF IsCountedMint(txLog) THEN Increment(addressList, txLog.Address) ELSE addressList

\* the loop over transList[lo..hi], in order
RECURSIVE CountRange(_, _, _, _)
CountRange(transList, addressList, lo, hi) ==
    IF lo > hi THEN addressList
    ELSE IF lo = hi THEN CountStep(addressList, transList[lo])
    ELSE LET mid == (lo + hi) \div 2
             left == CountRange(transList, addressList, lo, mid)
         IN  IF left = left THEN CountRange(transList, left, mid + 1, hi) ELSE addressList

EmptyMap == [k \in {} |-> 0]

CountMints(transList) == CountRange(transList, EmptyMap, 1, Len(transList))

\* lines 558-655: logs -> addressList
AddressList(logs) == CountMints(UniqueTransactions(logs))

Pair(k, v) == [Key |-> k, Value |-> v]

\* PairList.Less
Less(p, i, j) == p[i].Value < p[j].Value

\* sort.Reverse(pl).Less
ReverseLess(p, i, j) == Less(p, j, i)

\* the arrangements of the pairs of a map: the map's iteration order, and
\* what Swap can make of it
PairLists(wordFrequencies) ==
    LET keys == DOMAIN wordFrequencies
        n == Cardinality(keys)
    IN  { [i \in 1..n |-> Pair(g[i], wordFrequencies[g[i]])] :
            g \in { f \in [1..n -> keys] : \A i, j \in 1..n : i # j => f[i] # f[j] } }

\* the pairs sorted with Less itself
rankAscending(wordFrequencies) ==
    { pl \in PairLists(wordFrequencies) :
        \A i, j \in DOMAIN pl : i < j => ~Less(pl, j, i) }

\* rankByWordCount: the pairs of the map in the map's iteration order (any),
\* then sort.Sort(sort.Reverse(pl)), which is not stable: every arrangement of
\* the pairs in which no later pair is ReverseLess than an earlier one is a
\* possible result
rankByWordCount(wordFrequencies) ==
    { pl \in PairLists(wordFrequencies) :
        \A i, j \in DOMAIN pl : i < j => ~ReverseLess(pl, j, i) }

\* lines 600-658: the ranked lists processLogs can reach from the logs
MintLists(logs) == rankByWordCount(AddressList(logs))

\* the results of FilterLogs
LogInputs == {BuildLogs(w) : w \in Workloads}

(***************************************************************************)
(* Short FilterLogs results of every shape, for the stages of lines        *)
(* 600-658 taken one by one.                                               *)
(***************************************************************************)
\* topics of: a mint, a transfer between holders, an ERC20 mint (3 topics),
\* an event that is no transfer
TopicShapes ==
    { <<topicTransfer, Word(0, nullAddress), Word(0, "0xbuyer"), Word(0, "0x01")>>,
      <<topicTransfer, Word(0, "0xseller"), Word(0, "0xbuyer"), Word(0, "0x01")>>,
      <<topicTransfer, Word(0, nullAddress), Word(0, "0xbuyer")>>,
      <<"0xother", Word(0, nullAddress), Word(0, "0xbuyer"), Word(0, "0x01")>> }

TxHashes == {1, 2}

\* every shape at two contracts, and a mint at each contract of line 636
LogShapes ==
    { [Address |-> a, Topics |-> t, TxHash |-> h] :
        a \in {"0xA", "0xB"}, t \in TopicShapes, h \in TxHashes }
    \cup { MintLog(a, h) :
             a \in {contractAddressOpenSea, contractENS, contractENS2}, h \in TxHashes }

LogSeqs == UNION { [1..n -> LogShapes] : n \in 0..MaxLogs }

(***************************************************************************)
(* OpenSea responses and callOut.                                          *)
(***************************************************************************)
Collection(link, twitter) ==
    [ExternalLink |-> link, TwitterUsername |-> twitter]

Collections ==
    { Collection(l, t) : l \in {"", "https://site"}, t \in {"", "handle"} }

NoCollection == Collection("", "")

\* what the HTTP exchange of AssetContract can give
Responses ==
    {[kind |-> "transport_error", body |-> NoCollection],
     [kind |-> "not_ok_status", body |-> NoCollection],
     [kind |-> "undecodable", body |-> NoCollection]}
    \cup {[kind |-> "ok", body |-> c] : c \in Collections}

\* Client.AssetContract: (collection, err)
AssetContract(id, resp) ==
    IF id = "" THEN [err |-> TRUE, collection |-> NoCollection]
    ELSE IF resp.kind = "ok" THEN [err |-> FALSE, collection |-> resp.body]
    ELSE [err |-> TRUE, collection |-> NoCollection]

\* callOut without the metadata check
callOutNoMetadataCheck(coll, address, count) ==
    IF address = contractENS2 THEN FALSE ELSE TRUE

callOut(coll, address, count) ==
    IF address = contractENS2 THEN FALSE
    ELSE IF coll.ExternalLink = "" /\ coll.TwitterUsername = "" THEN FALSE
    ELSE TRUE

\* lines 678-688: the scan of status.Recents
Found(recents, key) ==
    \E i \in 1..Len(recents) : recents[i] # "" /\ recents[i] = key

\* a trim down to the cap, whatever the excess
TrimToCap(recents) ==
    IF Len(recents) > recentsCap
    THEN SubSeq(recents, Len(recents) - recentsCap + 1, Len(recents))
    ELSE recents

\* lines 711-714
Trim(recents) ==
    IF Len(recents) > recentsCap
    THEN SubSeq(recents, trimCount + 1, Len(recents))
    ELSE recents

\* the sendTweetV2 credential checks
TwitterConfigured(e) ==
    /\ e.TWITTER_CONSUMER_KEY # ""
    /\ e.TWITTER_CONSUMER_SECRET # ""
    /\ e.TWITTER_TOKEN # ""
    /\ e.TWITTER_TOKEN_SECRET # ""

\* the sendDiscordWebhook credential check
DiscordConfigured(e) ==
    ~(e.DISCORD_WEBHOOK_ID = "" \/ e.DISCORD_WEBHOOK_TOKEN = "")

(***************************************************************************)
(* State.                                                                  *)
(***************************************************************************)
VARIABLES
    env,        \* the process environment of the deployment
    store,      \* the S3 object
    runs,       \* invocations started so far
    pc,         \* where the invocation is
    status,     \* status.Recents of the invocation
    mintlist,   \* the ranked PairList
    index,      \* position of the announcement loop in mintlist (from 1)
    collection, \* the metadata fetched for mintlist[index], while it is announced
    calls,      \* the external calls the last step made, in order
    loaded,     \* status.Recents as GetStatus returned it
    appended,   \* the addresses this invocation appended to status.Recents
    saved,      \* the Recents this invocation passed to SetStatus, one per call
    live,       \* addresses appended by some invocation and not trimmed since
    logs,       \* the result of FilterLogs, where the stages are taken one by one
    transList,  \* the unique transactions, where the stages are taken one by one
    addressList, \* the mint count of every address
    fetches,    \* the AssetContract requests of this invocation, in order
    unprocessed \* the entries after the one at which the loop was left early

vars == <<env, store, runs, pc, status, mintlist, index, collection, calls,
          loaded, appended, saved, live, logs, transList, addressList,
          fetches, unprocessed>>

Call(op, addr, ok) == [op |-> op, addr |-> addr, ok |-> ok]

\* how an invocation ends: a return before "End", log.Fatal, a panic, "End"
Terminal == {"returned", "exited", "panicked", "done"}

\* a deployment other than the full one starts without an S3 object
Init ==
    /\ env \in Envs
    /\ store \in InitialStores
    /\ env # FullEnv => store = AbsentBlob
    /\ runs = 0
    /\ pc = "idle"
    /\ status = <<>>
    /\ mintlist = <<>>
    /\ index = 0
    /\ collection = NoCollection
    /\ calls = <<>>
    /\ loaded = <<>>
    /\ appended = <<>>
    /\ saved = <<>>
    /\ live = {}
    /\ logs = <<>>
    /\ transList = <<>>
    /\ addressList = EmptyMap
    /\ fetches = <<>>
    /\ unprocessed = <<>>

\* the invocation is over at p: its locals are gone
Ends(p) ==
    /\ pc' = p
    /\ status' = <<>>
    /\ mintlist' = <<>>
    /\ index' = 0
    /\ collection' = NoCollection
    /\ addressList' = EmptyMap

\* the scheduler triggers the handler again; the S3 object is all that is
\* left of the last invocation
Schedule ==
    /\ pc \in Terminal
    /\ runs < MaxRuns
    /\ pc' = "idle"
    /\ calls' = <<>>
    /\ loaded' = <<>>
    /\ appended' = <<>>
    /\ saved' = <<>>
    /\ fetches' = <<>>
    /\ unprocessed' = <<>>
    /\ UNCHANGED <<logs, transList, addressList,
                   env, store, runs, status, mintlist, index, collection, live>>

\* lines 537-556: the four checks of the required variables, as written
ConfigMissing(e) ==
    LET networkUrl == e.ETH_NETWORK_URL
        s3bucket == e.S3_BUCKET
        s3key == e.S3_FILE_KEY
    IN  \/ networkUrl = ""
        \/ s3bucket = ""
        \/ s3key = ""
        \/ s3key = ""

InvokeConfigMissing ==
    /\ pc = "idle"
    /\ runs < MaxRuns
    /\ ConfigMissing(env)
    /\ runs' = runs + 1
    /\ Ends("returned")
    /\ calls' = <<>>
    /\ UNCHANGED <<logs, transList, fetches, unprocessed,
                   env, store, loaded, appended, saved, live>>

\* lines 562-568: session.NewSession fails
InvokeSessionFail ==
    /\ pc = "idle"
    /\ runs < MaxRuns
    /\ ~ConfigMissing(env)
    /\ runs' = runs + 1
    /\ Ends("returned")
    /\ calls' = <<>>
    /\ UNCHANGED <<logs, transList, fetches, unprocessed,
                   env, store, loaded, appended, saved, live>>

InvokeOk ==
    /\ pc = "idle"
    /\ runs < MaxRuns
    /\ ~ConfigMissing(env)
    /\ runs' = runs + 1
    /\ pc' = "getstatus"
    /\ calls' = <<>>
    /\ UNCHANGED <<logs, transList, addressList, fetches, unprocessed,
                   env, store, status, mintlist, index, collection,
                   loaded, appended, saved, live>>

\* GetStatus: the Recents it returns for the outcome of GetObject (getOk,
\* false on a missing key or any other S3 error) and of ioutil.ReadAll
GetStatusResult(blob, getOk, readOk) ==
    IF ~getOk THEN <<>>
    ELSE IF ~readOk THEN <<>>
    ELSE Unmarshal(blob)

\* line 569
GetStatus(getOk, readOk) ==
    /\ pc = "getstatus"
    /\ store.kind = "absent" => ~getOk
    /\ status' = GetStatusResult(store, getOk, readOk)
    /\ calls' = <<Call("GetObject", "", getOk /\ readOk)>>
    /\ loaded' = status'
    /\ pc' = "dial"
    /\ UNCHANGED <<logs, transList, addressList, fetches, unprocessed,
                   env, store, runs, mintlist, index, collection, appended, saved, live>>

\* lines 571-575
DialFail ==
    /\ pc = "dial"
    /\ Ends("returned")
    /\ calls' = <<Call("Dial", "", FALSE)>>
    /\ UNCHANGED <<logs, transList, fetches, unprocessed,
                   env, store, runs, loaded, appended, saved, live>>

DialOk ==
    /\ pc = "dial"
    /\ pc' = "header"
    /\ calls' = <<Call("Dial", "", TRUE)>>
    /\ UNCHANGED <<logs, transList, addressList, fetches, unprocessed,
                   env, store, runs, status, mintlist, index, collection,
                   loaded, appended, saved, live>>

\* lines 577-580: log.Fatal ends the process
HeaderFail ==
    /\ pc = "header"
    /\ Ends("exited")
    /\ calls' = <<Call("HeaderByNumber", "", FALSE)>>
    /\ UNCHANGED <<logs, transList, fetches, unprocessed,
                   env, store, runs, loaded, appended, saved, live>>

HeaderOk ==
    /\ pc = "header"
    /\ pc' = "filterlogs"
    /\ calls' = <<Call("HeaderByNumber", "", TRUE)>>
    /\ UNCHANGED <<logs, transList, addressList, fetches, unprocessed,
                   env, store, runs, status, mintlist, index, collection,
                   loaded, appended, saved, live>>

\* lines 594-597
FilterLogsFail ==
    /\ pc = "filterlogs"
    /\ Ends("exited")
    /\ calls' = <<Call("FilterLogs", "", FALSE)>>
    /\ UNCHANGED <<logs, transList, fetches, unprocessed,
                   env, store, runs, loaded, appended, saved, live>>

\* lines 594-658: the logs arrive, are deduplicated, filtered, counted, ranked
FilterLogsOk ==
    /\ pc = "filterlogs"
    /\ \E result \in LogInputs :
          /\ addressList' = AddressList(result)
          /\ mintlist' \in rankByWordCount(addressList')
    /\ index' = 1
    /\ pc' = "loop"
    /\ calls' = <<Call("FilterLogs", "", TRUE)>>
    /\ UNCHANGED <<logs, transList, fetches, unprocessed,
                   env, store, runs, status, collection, loaded, appended, saved, live>>

(***************************************************************************)
(* The announcement loop, lines 673-709.                                   *)
(***************************************************************************)
mint == mintlist[index]

\* one AssetContract request: the entry it was made for and whether it
\* returned a collection
Fetch(m, ok) == [Key |-> m.Key, Value |-> m.Value, ok |-> ok]

\* the entries the `for index, mint := range mintlist` loop has not reached
\* when it is left at position i
Rest(list, i) == SubSeq(list, i + 1, Len(list))

\* the threshold itself taken as enough
QualifiesFromThreshold(m, recents) == m.Value >= mintThreshold /\ ~Found(recents, m.Key)

\* lines 675-691: the entry is announced unless its count is too low or its
\* address is in status.Recents
Qualifies(m, recents) == m.Value > mintThreshold /\ ~Found(recents, m.Key)


LoopSkip ==
    /\ pc = "loop"
    /\ index <= Len(mintlist)
    /\ ~Qualifies(mint, status)
    /\ index' = index + 1
    /\ calls' = <<>>
    /\ UNCHANGED <<logs, transList, addressList, fetches, unprocessed,
                   env, store, runs, pc, status, mintlist, collection,
                   loaded, appended, saved, live>>

\* a failed metadata fetch that goes on to the next entry
AssetContractFailContinue ==
    /\ pc = "loop"
    /\ index <= Len(mintlist)
    /\ Qualifies(mint, status)
    /\ \E resp \in Responses : AssetContract(mint.Key, resp).err
    /\ index' = index + 1
    /\ calls' = <<Call("AssetContract", mint.Key, FALSE)>>
    /\ fetches' = Append(fetches, Fetch(mint, FALSE))
    /\ UNCHANGED <<logs, transList, addressList, unprocessed,
                   env, store, runs, pc, status, mintlist, collection,
                   loaded, appended, saved, live>>

\* lines 692-696: the metadata fetch fails and processLogs returns
AssetContractFail ==
    /\ pc = "loop"
    /\ index <= Len(mintlist)
    /\ Qualifies(mint, status)
    /\ \E resp \in Responses : AssetContract(mint.Key, resp).err
    /\ Ends("returned")
    /\ calls' = <<Call("AssetContract", mint.Key, FALSE)>>
    /\ fetches' = Append(fetches, Fetch(mint, FALSE))
    /\ unprocessed' = Rest(mintlist, index)
    /\ UNCHANGED <<logs, transList,
                   env, store, runs, loaded, appended, saved, live>>

\* lines 692-698: the metadata arrives and callOut refuses the contract
CallOutReject ==
    /\ pc = "loop"
    /\ index <= Len(mintlist)
    /\ Qualifies(mint, status)
    /\ \E resp \in Responses :
          LET r == AssetContract(mint.Key, resp)
          IN  /\ ~r.err
              /\ ~callOut(r.collection, mint.Key, mint.Value)
    /\ index' = index + 1
    /\ calls' = <<Call("AssetContract", mint.Key, TRUE)>>
    /\ fetches' = Append(fetches, Fetch(mint, TRUE))
    /\ UNCHANGED <<logs, transList, addressList, unprocessed,
                   env, store, runs, pc, status, mintlist, collection,
                   loaded, appended, saved, live>>

\* lines 692-699: the metadata arrives and callOut accepts the contract
CallOutAccept ==
    /\ pc = "loop"
    /\ index <= Len(mintlist)
    /\ Qualifies(mint, status)
    /\ \E resp \in Responses :
          LET r == AssetContract(mint.Key, resp)
          IN  /\ ~r.err
              /\ callOut(r.collection, mint.Key, mint.Value)
              /\ collection' = r.collection
    /\ pc' = "tweet"
    /\ calls' = <<Call("AssetContract", mint.Key, TRUE)>>
    /\ fetches' = Append(fetches, Fetch(mint, TRUE))
    /\ UNCHANGED <<logs, transList, addressList, unprocessed,
                   env, store, runs, status, mintlist, index,
                   loaded, appended, saved, live>>

\* sendTweetV2: the calls it makes; it returns in every case
TweetCalls(e, addr, sendOk) ==
    IF TwitterConfigured(e) THEN <<Call("CreateTweet", addr, sendOk)>> ELSE <<>>

SendTweet ==
    /\ pc = "tweet"
    /\ \E sendOk \in BOOLEAN :
          calls' = TweetCalls(env, mint.Key, sendOk)
    /\ pc' = "discord"
    /\ UNCHANGED <<logs, transList, addressList, fetches, unprocessed,
                   env, store, runs, status, mintlist, index, collection,
                   loaded, appended, saved, live>>

\* sendDiscordWebhook: the calls it makes, and whether it panics.  apiOk is
\* discordhook.NewWebhookAPI, getOk is wa.Get, execOk is wa.Execute
DiscordOutcome(e, addr, apiOk, getOk, execOk) ==
    IF ~DiscordConfigured(e) THEN [calls |-> <<>>, panic |-> FALSE]
    ELSE IF ~ParseIntOk(e.DISCORD_WEBHOOK_ID) THEN [calls |-> <<>>, panic |-> FALSE]
    ELSE IF ~apiOk THEN [calls |-> <<>>, panic |-> FALSE]
    ELSE IF ~getOk THEN [calls |-> <<Call("Discord.Get", addr, FALSE)>>, panic |-> FALSE]
    ELSE [calls |-> <<Call("Discord.Get", addr, TRUE), Call("Discord.Execute", addr, execOk)>>,
          panic |-> ~execOk]

\* line 704: status.Recents = append(status.Recents, mint.Key)
Record(recents, key) == Append(recents, key)

\* lines 702-704: the webhook returns and the address is recorded
SendDiscord ==
    /\ pc = "discord"
    /\ \E apiOk, getOk, execOk \in BOOLEAN :
          LET o == DiscordOutcome(env, mint.Key, apiOk, getOk, execOk)
          IN  /\ ~o.panic
              /\ calls' = o.calls
    /\ status' = Record(status, mint.Key)
    /\ appended' = Append(appended, mint.Key)
    /\ live' = live \cup {mint.Key}
    /\ index' = index + 1
    /\ collection' = NoCollection
    /\ pc' = "loop"
    /\ UNCHANGED <<logs, transList, addressList, fetches, unprocessed,
                   env, store, runs, mintlist, loaded, saved>>

\* lines 438-440: panic(err) unwinds processLogs
SendDiscordPanic ==
    /\ pc = "discord"
    /\ \E apiOk, getOk, execOk \in BOOLEAN :
          LET o == DiscordOutcome(env, mint.Key, apiOk, getOk, execOk)
          IN  /\ o.panic
              /\ calls' = o.calls
    /\ Ends("panicked")
    /\ unprocessed' = Rest(mintlist, index)
    /\ UNCHANGED <<logs, transList, fetches,
                   env, store, runs, loaded, appended, saved, live>>

\* SetStatus: the object after PutObject of the marshalled status
SetStatus(blob, recents, putOk) == IF putOk THEN Marshal(recents) ELSE blob

\* the entries status.Recents[2:] drops
Dropped(recents) ==
    IF Len(recents) > recentsCap
    THEN {recents[i] : i \in 1..trimCount}
    ELSE {}

\* lines 711-716: the loop is over; trim, save, "End"
Finish(putOk) ==
    /\ pc = "loop"
    /\ index > Len(mintlist)
    /\ store' = SetStatus(store, Trim(status), putOk)
    /\ calls' = <<Call("PutObject", "", putOk)>>
    /\ saved' = Append(saved, Trim(status))
    /\ live' = live \ Dropped(status)
    /\ Ends("done")
    /\ UNCHANGED <<logs, transList, fetches, unprocessed,
                   env, runs, loaded, appended>>

\* the outcomes of GetObject and ReadAll: a read fails only after a
\* successful get
S3Read == {<<TRUE, TRUE>>, <<TRUE, FALSE>>, <<FALSE, TRUE>>}

Next ==
    \/ Schedule
    \/ InvokeConfigMissing
    \/ InvokeSessionFail
    \/ InvokeOk
    \/ \E o \in S3Read : GetStatus(o[1], o[2])
    \/ DialFail
    \/ DialOk
    \/ HeaderFail
    \/ HeaderOk
    \/ FilterLogsFail
    \/ FilterLogsOk
    \/ LoopSkip
    \/ AssetContractFail
    \/ CallOutReject
    \/ CallOutAccept
    \/ SendTweet
    \/ SendDiscord
    \/ SendDiscordPanic
    \/ \E putOk \in BOOLEAN : Finish(putOk)

Spec == Init /\ [][Next]_vars

(***************************************************************************)
(* Lines 594-658 one stage at a time, on the short FilterLogs results.     *)
(***************************************************************************)
InitStages ==
    /\ env = FullEnv
    /\ store = AbsentBlob
    /\ runs = 1
    /\ pc = "logs"
    /\ status = <<>>
    /\ mintlist = <<>>
    /\ index = 0
    /\ collection = NoCollection
    /\ calls = <<Call("FilterLogs", "", TRUE)>>
    /\ loaded = <<>>
    /\ appended = <<>>
    /\ saved = <<>>
    /\ live = {}
    /\ logs \in LogSeqs
    /\ transList = <<>>
    /\ addressList = EmptyMap
    /\ fetches = <<>>
    /\ unprocessed = <<>>

\* lines 600-607
Deduplicate ==
    /\ pc = "logs"
    /\ transList' = UniqueTransactions(logs)
    /\ pc' = "unique"
    /\ UNCHANGED <<env, store, runs, status, mintlist, index, collection, calls,
                   loaded, appended, saved, live, logs, addressList,
                   fetches, unprocessed>>

\* lines 611-655
Count ==
    /\ pc = "unique"
    /\ addressList' = CountMints(transList)
    /\ pc' = "counted"
    /\ UNCHANGED <<env, store, runs, status, mintlist, index, collection, calls,
                   loaded, appended, saved, live, logs, transList,
                   fetches, unprocessed>>

\* line 658
Rank ==
    /\ pc = "counted"
    /\ mintlist' \in rankByWordCount(addressList)
    /\ pc' = "ranked"
    /\ UNCHANGED <<env, store, runs, status, index, collection, calls,
                   loaded, appended, saved, live, logs, transList, addressList,
                   fetches, unprocessed>>

NextStages ==
    \/ Deduplicate
    \/ Count
    \/ Rank

SpecStages == InitStages /\ [][NextStages]_vars

\* the same program with an S3 that answers every request: GetObject fails
\* only for a missing key, PutObject never
NextS3Up ==
    \/ Schedule
    \/ InvokeConfigMissing
    \/ InvokeSessionFail
    \/ InvokeOk
    \/ GetStatus(store.kind # "absent", TRUE)
    \/ DialFail
    \/ DialOk
    \/ HeaderFail
    \/ HeaderOk
    \/ FilterLogsFail
    \/ FilterLogsOk
    \/ LoopSkip
    \/ AssetContractFail
    \/ CallOutReject
    \/ CallOutAccept
    \/ SendTweet
    \/ SendDiscord
    \/ SendDiscordPanic
    \/ Finish(TRUE)

SpecS3Up == Init /\ [][NextS3Up]_vars

(***************************************************************************)
(* Properties.                                                             *)
(***************************************************************************)
NotifyOps == {"CreateTweet", "Discord.Get", "Discord.Execute"}
ContractOps == NotifyOps \cup {"AssetContract"}

\* the invocation got as far as the announcement loop and is over: its last
\* step was the save, a failed metadata fetch or a panicking webhook
LoopRunOver ==
    /\ pc \in {"returned", "panicked", "done"}
    /\ calls # <<>>
    /\ calls[1].op \in {"PutObject", "AssetContract", "Discord.Get"}

\* C1: every invocation that reaches the announcement loop calls SetStatus
\* exactly once when it ends, also after a failed metadata fetch, and what it
\* saves holds the addresses announced in the invocation.
C1_StatePersistedOnEveryRun ==
    LoopRunOver =>
        /\ Len(saved) = 1
        /\ \A i \in DOMAIN appended :
              \E j \in DOMAIN saved[1] : saved[1][j] = appended[i]

\* C2: a send failure of a notification provider never aborts the run: after
\* a failed tweet the Discord webhook is next, and after a failed webhook call
\* the contract is appended and the loop goes on.
C2_SendFailureNeverAborts ==
    \A i \in DOMAIN calls :
        (calls[i].op \in NotifyOps /\ ~calls[i].ok) =>
            \/ pc = "discord"
            \/ /\ pc = "loop"
               /\ appended # <<>>
               /\ appended[Len(appended)] = calls[i].addr

\* C3: the persisted recents never has more than 200 entries.
C3_PersistedAtMostCap ==
    store.kind = "json" => Len(store.recents) <= 200

\* the list of C4: what was loaded followed by what this invocation appended
RunRecents == loaded \o appended

\* C4: at the end of a completed run the list passed to SetStatus is the
\* loaded entries followed by the appended ones, without its first 2 entries
\* if it has more than 200 and unchanged otherwise; a successful PutObject
\* makes it the persisted list.
C4_SavedIsTrimmedByTwo ==
    pc = "done" =>
        /\ Len(saved) = 1
        /\ saved[1] = IF Len(RunRecents) > 200
                      THEN SubSeq(RunRecents, 3, Len(RunRecents))
                      ELSE RunRecents
        /\ calls[1].ok => store = JsonBlob(saved[1])

\* a completed run that loaded 200 entries, announced one and saved 199
C4_Witness ==
    /\ pc = "done"
    /\ Len(loaded) = 200
    /\ Len(appended) = 1
    /\ calls[1].ok
    /\ Len(store.recents) = 199

\* C5: no notifier is invoked for an address that some invocation appended to
\* recents, unless the trim removed it since.
C5_NeverAnnouncedTwice ==
    [][\A i \in DOMAIN calls' :
          calls'[i].op \in NotifyOps => calls'[i].addr \notin live]_vars

\* C6: a save loses no persisted entry but by the trim: the saved list is the
\* list persisted before the run followed by the addresses announced in the
\* run, without at most its 2 oldest entries.
C6_NoEntryLostButByTrim ==
    [][(pc = "loop" /\ pc' = "done" /\ calls'[1].ok) =>
          LET all == store.recents \o appended
          IN  \E k \in 0..2 :
                 /\ k <= Len(all)
                 /\ store'.recents = SubSeq(all, k + 1, Len(all))]_vars

\* C7: with a required variable unset the invocation returns before any
\* network call and without saving.
C7_MissingConfigAborts ==
    (\E v \in RequiredVars : env[v] = "") =>
        /\ pc \in {"idle", "returned"}
        /\ calls = <<>>
        /\ saved = <<>>

\* C8: the metadata fetcher and the notifiers are invoked for the current
\* entry only, and only if its count is above 100 and its address is no
\* non-empty entry of recents.
C8_OnlyQualifyingEntries ==
    [][\A i \in DOMAIN calls' :
          calls'[i].op \in ContractOps =>
              /\ index \in 1..Len(mintlist)
              /\ calls'[i].addr = mintlist[index].Key
              /\ mintlist[index].Value > 100
              /\ \A j \in DOMAIN status :
                    status[j] = "" \/ status[j] # mintlist[index].Key]_vars

\* a tweet went out for an entry that comes after an entry above 100 that
\* was loaded from the S3 object, in a list that also has an entry at 100
C8_Witness ==
    /\ pc = "discord"
    /\ \E i \in DOMAIN calls : calls[i].op = "CreateTweet"
    /\ \E j \in 1..(index - 1) :
          /\ mintlist[j].Value > 100
          /\ \E k \in DOMAIN loaded : loaded[k] = mintlist[j].Key
    /\ \E j \in DOMAIN mintlist : mintlist[j].Value = 100

\* C9: a notifier is invoked, and an address appended, only for a contract
\* that is not the denylisted one and whose metadata has a link or a Twitter
\* handle; an entry whose fetch succeeded and that was not accepted leaves
\* recents as it was.
C9_RejectedLeavesNoTrace ==
    [][/\ ((\E i \in DOMAIN calls' : calls'[i].op \in NotifyOps)
              \/ Len(appended') > Len(appended)) =>
              /\ mintlist[index].Key # contractENS2
              /\ ~(collection.ExternalLink = "" /\ collection.TwitterUsername = "")
       /\ Len(appended') > Len(appended) =>
              /\ appended' = Append(appended, mintlist[index].Key)
              /\ status' = Append(status, mintlist[index].Key)
       /\ (pc = "loop" /\ pc' = "loop" /\ calls' # <<>>) =>
              /\ calls' = <<Call("AssetContract", mintlist[index].Key, TRUE)>>
              /\ status' = status
              /\ appended' = appended]_vars

\* the first entry was fetched and rejected, the loop is at the second
C9_Witness ==
    /\ pc = "loop"
    /\ index = 2
    /\ Len(mintlist) >= 2
    /\ calls = <<Call("AssetContract", mintlist[1].Key, TRUE)>>
    /\ appended = <<>>

\* C10: with the credentials of a channel missing, an accepted contract still
\* goes to the other channel, is appended, and the run goes on; the channel
\* without credentials makes no call.
C10_MissingCredentialsSkipOneChannel ==
    [][(~TwitterConfigured(env) \/ ~DiscordConfigured(env)) =>
          /\ pc = "tweet" =>
                /\ pc' = "discord"
                /\ ~TwitterConfigured(env) => calls' = <<>>
          /\ pc = "discord" =>
                /\ pc' = "loop"
                /\ appended' = Append(appended, mintlist[index].Key)
                /\ ~DiscordConfigured(env) => calls' = <<>>]_vars

\* the sum of the counts of a map
RECURSIVE Total(_)
Total(f) ==
    IF DOMAIN f = {} THEN 0
    ELSE LET k == CHOOSE x \in DOMAIN f : TRUE
         IN  f[k] + Total([x \in DOMAIN f \ {k} |-> f[x]])

\* the position in logs of the first log of transaction t
FirstLogOf(t) ==
    CHOOSE i \in DOMAIN logs :
        /\ logs[i].TxHash = t
        /\ \A j \in 1..(i - 1) : logs[j].TxHash # t

\* C11: the deduplicated list has exactly one entry per distinct transaction
\* identifier of the input, the first log of that transaction, in first-seen
\* order; the counts sum to no more than the number of transactions.
C11_OneEntryPerTransaction ==
    pc \in {"unique", "counted", "ranked"} =>
        LET txs == {logs[i].TxHash : i \in DOMAIN logs}
        IN  /\ Len(transList) = Cardinality(txs)
            /\ \A t \in txs :
                  \E k \in DOMAIN transList : transList[k] = logs[FirstLogOf(t)]
            /\ \A k, l \in DOMAIN transList :
                  k < l => FirstLogOf(transList[k].TxHash) < FirstLogOf(transList[l].TxHash)
            /\ pc \in {"counted", "ranked"} => Total(addressList) <= Cardinality(txs)

\* three logs of two transactions, the third a mint in the transaction of the
\* first, which is no mint: the mint is dropped and nothing is counted
C11_Witness ==
    /\ pc = "counted"
    /\ Len(logs) = 3
    /\ logs[1].TxHash = logs[3].TxHash
    /\ logs[2].TxHash # logs[1].TxHash
    /\ logs[3] = MintLog("0xA", logs[3].TxHash)
    /\ logs[1].Address = "0xB"
    /\ transList = <<logs[1], logs[2]>>
    /\ "0xA" \notin DOMAIN addressList

\* the deduplicated entries that pass the mint filter
MintEntries ==
    { i \in DOMAIN transList :
        /\ transList[i].Topics[1] = topicTransfer
        /\ Len(transList[i].Topics) >= 4
        /\ transList[i].Topics[2].addr = nullAddress
        /\ transList[i].Address # contractAddressOpenSea
        /\ transList[i].Address # contractENS
        /\ transList[i].Address # contractENS2 }

\* C12: the count of an address is the number of deduplicated entries at it
\* that are transfers with at least 4 topics from the null address, at none
\* of the three excluded contracts; an address without such an entry has no
\* count, and the counts sum to the number of such entries.
C12_CountsAreFilteredMints ==
    pc \in {"counted", "ranked"} =>
        /\ DOMAIN addressList = {transList[i].Address : i \in MintEntries}
        /\ \A a \in DOMAIN addressList :
              addressList[a] = Cardinality({i \in MintEntries : transList[i].Address = a})
        /\ Total(addressList) = Cardinality(MintEntries)

\* a mint at a contract and a mint at an excluded contract, in two
\* transactions: one count of 1
C12_Witness ==
    /\ pc = "counted"
    /\ Len(transList) = 2
    /\ transList[1] = MintLog("0xA", transList[1].TxHash)
    /\ transList[2] = MintLog(contractENS2, transList[2].TxHash)
    /\ addressList = ("0xA" :> 1)

\* C13: a failed metadata fetch is the last thing an invocation does: it is
\* the last fetch, the invocation has returned with it as its last call, the
\* appended addresses were all fetched before it, and no entry ranked after
\* it was fetched or appended.
C13_NothingAfterFailedFetch ==
    \A i \in DOMAIN fetches :
        ~fetches[i].ok =>
            /\ i = Len(fetches)
            /\ pc = "returned"
            /\ calls = <<Call("AssetContract", fetches[i].Key, FALSE)>>
            /\ \A k \in DOMAIN appended :
                  \E j \in 1..(i - 1) : fetches[j].ok /\ fetches[j].Key = appended[k]
            /\ \A k \in DOMAIN unprocessed :
                  /\ \A j \in DOMAIN fetches : fetches[j].Key # unprocessed[k].Key
                  /\ \A j \in DOMAIN appended : appended[j] # unprocessed[k].Key

\* the first entry was announced, the fetch for the second failed, and an
\* entry after it has more than 100 mints and is not in recents
C13_Witness ==
    /\ pc = "returned"
    /\ Len(fetches) = 2
    /\ fetches[1].ok
    /\ ~fetches[2].ok
    /\ appended = <<fetches[1].Key>>
    /\ \E k \in DOMAIN unprocessed :
          /\ unprocessed[k].Value > 100
          /\ ~Found(loaded \o appended, unprocessed[k].Key)

\* the position of an address in the ranked list
Position(key) == CHOOSE i \in DOMAIN mintlist : mintlist[i].Key = key

\* C14: the ranked list holds every (address, count) of the map once, counts
\* non-increasing; the metadata fetches of an invocation follow the ranked
\* order with non-increasing counts; and every call for a contract is for the
\* contract fetched last, so that its notifications are over before the next
\* fetch.
C14_RankedOrderOneAtATime ==
    /\ pc \in {"loop", "tweet", "discord"} =>
          /\ Len(mintlist) = Cardinality(DOMAIN addressList)
          /\ \A a \in DOMAIN addressList :
                \E i \in DOMAIN mintlist :
                    mintlist[i] = [Key |-> a, Value |-> addressList[a]]
          /\ \A i, j \in DOMAIN mintlist :
                i < j => mintlist[i].Value >= mintlist[j].Value
          /\ \A k \in DOMAIN fetches :
                /\ \E i \in DOMAIN mintlist :
                      mintlist[i] = [Key |-> fetches[k].Key, Value |-> fetches[k].Value]
                /\ Position(fetches[k].Key) <= index
          /\ \A k, l \in DOMAIN fetches :
                k < l => Position(fetches[k].Key) < Position(fetches[l].Key)
          /\ pc \in {"tweet", "discord"} =>
                /\ fetches # <<>>
                /\ fetches[Len(fetches)].ok
                /\ fetches[Len(fetches)].Key = mintlist[index].Key
    /\ \A k, l \in DOMAIN fetches :
          k < l => fetches[k].Value >= fetches[l].Value
    /\ \A i \in DOMAIN calls :
          calls[i].op \in ContractOps =>
              /\ fetches # <<>>
              /\ calls[i].addr = fetches[Len(fetches)].Key

\* two contracts were fetched, the one with 102 mints before one with 101,
\* the first was announced and recorded, and the list ends with a
\* contract at 101 as well
C14_Witness ==
    /\ pc = "tweet"
    /\ Len(mintlist) = 3
    /\ mintlist[3].Value = 101
    /\ Len(fetches) = 2
    /\ fetches[1].Value = 102
    /\ fetches[2].Value = 101
    /\ appended = <<fetches[1].Key>>
    /\ index = 2

====
